---- MODULE Spec2Model ----
(***************************************************************************)
(* A model of OJFill: the platform crawlers (Codeforces, AtCoder,          *)
(* LeetCode), the Problem entity, the Clist rating fetcher with its cache  *)
(* and retry loop, the exporter's sort, and the main pipeline.             *)
(*                                                                         *)
(* Python values are encoded as follows.  An Optional value is a sequence  *)
(* of length at most one: None is <<>> and a present value v is <<v>>.     *)
(* A Python dict that is iterated is a sequence of its keys in insertion   *)
(* order.  Upstream HTTP answers are inputs: the submission histories are  *)
(* drawn by Init, the rating service's answers by the action that sends    *)
(* the requests.                                                           *)
(***************************************************************************)
EXTENDS Integers, Sequences, FiniteSets, TLC

VARIABLES
    crawler,        \* the crawler object under test: its platform
    include_gym,    \* CodeforcesCrawler.include_gym
    contest_only,   \* AtCoderCrawler.contest_only
    cf_api,         \* what the Codeforces API answers
    at_api,         \* what the AtCoder Problems API answers
    lc_api,         \* what the LeetCode problem-list API answers
    lc_contests,    \* what the LeetCode contest API answers
    cf_contests,    \* what the Codeforces user.rating and contest.standings answer
    call,           \* the crawler method that was called last
    returned,       \* what that call returned: [raised, problems]
    PROBLEM_CACHE,  \* ClistFetcher.PROBLEM_CACHE: cache key -> problem_info
    lookup,         \* the last search_problem call and what it did
    stored,         \* history: (platform, title) -> the result a miss stored
    completed,      \* history: the (platform, title) whose lookup got an answer
    ncalls,         \* the number of search_problem calls made
    problems,       \* the list of Problem that is enriched, sorted and exported
    batch,          \* fetch_ratings_batch: its position, loop index and sleeps
    PLATFORM_PRIORITY,  \* Exporter.PLATFORM_PRIORITY
    sorted_problems,    \* what sort_problems returned, when it was called
    files,          \* what each export format wrote: Optional list per format
    config,         \* the loaded config.yaml
    main_pc,        \* the position of main
    all_problems    \* crawl_all_problems: the list it accumulates

crawlVars == <<crawler, include_gym, contest_only, cf_api, at_api, lc_api,
               lc_contests, cf_contests, call, returned>>

fetchVars == <<PROBLEM_CACHE, lookup, stored, completed, ncalls>>

batchVars == <<problems, batch>>

exportVars == <<PLATFORM_PRIORITY, sorted_problems, files>>

mainVars == <<config, main_pc, all_problems>>

vars == <<crawlVars, fetchVars, batchVars, exportVars, mainVars>>

---------------------------------------------------------------------------
(* Bounds of the model *)

MaxSubs == 3
MaxRetries == 3
MaxCalls == 3
MaxProblems == 3
MaxSortLen == 3
MaxContestSubs == 2
MaxBuilt == 2

---------------------------------------------------------------------------
(* Python values *)

None == <<>>
Some(v) == <<v>>

Range(s) == {s[i] : i \in 1..Len(s)}

SeqsUpTo(S, n) == UNION {[1..k -> S] : k \in 0..n}

RECURSIVE Concat(_)
Concat(ss) ==
    IF ss = <<>> THEN <<>> ELSE Head(ss) \o Concat(Tail(ss))

\* The keys of a dict filled by scanning s: each value once, in the order of
\* its first occurrence.
RECURSIVE UniqueInOrder(_)
UniqueInOrder(s) ==
    IF s = <<>> THEN <<>>
    ELSE LET r == UniqueInOrder(SubSeq(s, 1, Len(s) - 1))
             x == s[Len(s)]
         IN  IF x \in Range(r) THEN r ELSE Append(r, x)

Digit(d) ==
    CASE d = 0 -> "0" [] d = 1 -> "1" [] d = 2 -> "2" [] d = 3 -> "3"
      [] d = 4 -> "4" [] d = 5 -> "5" [] d = 6 -> "6" [] d = 7 -> "7"
      [] d = 8 -> "8" [] d = 9 -> "9"

RECURSIVE IntToStr(_)
IntToStr(n) ==
    IF n < 10 THEN Digit(n) ELSE IntToStr(n \div 10) \o Digit(n % 10)

\* str(x) of a JSON value that is an int or null
JInt(n) == [t |-> "int", v |-> n]
JNull == [t |-> "null"]
PyStr(j) == IF j.t = "int" THEN IntToStr(j.v) ELSE "None"

\* str.lower() on the strings of the model
Lower(s) ==
    CASE s = "ABC100_A" -> "abc100_a"
      [] s = "ABC100_B" -> "abc100_b"
      [] s = "Practice" -> "practice"
      [] OTHER -> s

\* str.upper() on the platform names of the model
Upper(s) ==
    CASE s = "luogu" -> "LUOGU"
      [] s = "codeforces" -> "CODEFORCES"
      [] s = "atcoder" -> "ATCODER"
      [] s = "leetcode" -> "LEETCODE"
      [] OTHER -> s

\* 'practice' in s, for a lower-cased contest id of the model
HasPractice(s) == s \in {"practice", "practice2"}

---------------------------------------------------------------------------
(* models/problem.py *)

problem_id(platform, contest_id, problem_index) ==
    CASE platform = "codeforces" ->
            "CF-" \o contest_id \o "-" \o problem_index
      [] platform = "atcoder" ->
            "AT-" \o contest_id \o "-" \o Lower(problem_index)
      [] platform = "leetcode" ->
            "LC-" \o contest_id
      [] OTHER ->
            Upper(platform) \o "-" \o contest_id \o "-" \o problem_index

default_url(platform, contest_id, problem_index) ==
    CASE platform = "codeforces" ->
            "https://codeforces.com/contest/" \o contest_id \o "/problem/"
                \o problem_index
      [] platform = "atcoder" ->
            "https://atcoder.jp/contests/" \o contest_id \o "/tasks/"
                \o problem_index
      [] platform = "leetcode" ->
            "https://leetcode.com/problems/" \o contest_id \o "/"
      [] OTHER -> ""

ProblemIdFromTitle(platform, contest_id, problem_index, title, url) ==
    [platform      |-> platform,
     contest_id    |-> contest_id,
     problem_index |-> problem_index,
     title         |-> title,
     url           |-> IF url = "" THEN default_url(platform, contest_id, problem_index)
                       ELSE url,
     clist_rating  |-> None,
     problem_id    |-> problem_id(platform, title, problem_index)]

\* Problem(platform, contest_id, problem_index, title, url) after __post_init__
Problem(platform, contest_id, problem_index, title, url) ==
    [platform      |-> platform,
     contest_id    |-> contest_id,
     problem_index |-> problem_index,
     title         |-> title,
     url           |-> IF url = "" THEN default_url(platform, contest_id, problem_index)
                       ELSE url,
     clist_rating  |-> None,
     problem_id    |-> problem_id(platform, contest_id, problem_index)]

---------------------------------------------------------------------------
(* crawlers/codeforces.py *)

GYM_MIN_CONTEST_ID == 100000

\* fetch_submissions: the result list, or an exception
CFFetchSubmissions(api) ==
    IF api.ok THEN [raised |-> FALSE, value |-> api.result]
    ELSE [raised |-> TRUE, value |-> <<>>]

\* the Gym test of the grouping loop
CFSkipped(sub, gym) ==
    /\ ~gym
    /\ sub.contestId.t = "int"
    /\ sub.contestId.v >= GYM_MIN_CONTEST_ID

CFKey(sub) == <<sub.contestId, sub.index>>

CFHasAcFirstOnly(subs) == subs[1].verdict = "OK"

CFHasAc(subs) == \E i \in 1..Len(subs) : subs[i].verdict = "OK"

CFGetUnsolvedProblems(submissions, gym) ==
    LET kept == SelectSeq(submissions, LAMBDA sub : ~CFSkipped(sub, gym))
        keys == UniqueInOrder([i \in 1..Len(kept) |-> CFKey(kept[i])])
        subsOf(key) == SelectSeq(kept, LAMBDA sub : CFKey(sub) = key)
        one(key) ==
            IF CFHasAc(subsOf(key)) THEN <<>>
            ELSE <<Problem("codeforces", PyStr(key[1]), key[2],
                           subsOf(key)[1].name, "")>>
    IN  Concat([i \in 1..Len(keys) |-> one(keys[i])])

\* the (contestId, index) pairs of the submissions with both set
CFAttempted(submissions) ==
    {<<submissions[i].contestId.v, submissions[i].index>> :
        i \in {k \in 1..Len(submissions) :
                  /\ submissions[k].contestId.t = "int"
                  /\ submissions[k].contestId.v # 0
                  /\ submissions[k].index # ""}}

\* fetch_user_contests: the result of user.rating, or an exception
CFFetchUserContests(cc) ==
    IF cc.rating_ok THEN [raised |-> FALSE, value |-> cc.rating]
    ELSE [raised |-> TRUE, value |-> <<>>]

CFFetchContestProblemsAnyFailure(cc, contest_id) ==
    IF cc.fail # {} \/ contest_id \notin DOMAIN cc.problems THEN <<>>
    ELSE cc.problems[contest_id]

\* fetch_contest_problems: the problems of contest.standings, [] when the
\* request fails
CFFetchContestProblems(cc, contest_id) ==
    IF contest_id \in cc.fail \/ contest_id \notin DOMAIN cc.problems THEN <<>>
    ELSE cc.problems[contest_id]

CFGetContestUnattemptedProblems(submissions, contests, cc, gym) ==
    LET attempted_problems == CFAttempted(submissions)
        of(contest) ==
            LET contest_id == contest.contestId
                problems_ == CFFetchContestProblems(cc, contest_id)
                kept == SelectSeq(problems_,
                                  LAMBDA p : <<contest_id, p.index>> \notin attempted_problems)
            IN  IF ~gym /\ contest_id >= GYM_MIN_CONTEST_ID THEN <<>>
                ELSE [j \in 1..Len(kept) |->
                         Problem("codeforces", IntToStr(contest_id), kept[j].index,
                                 kept[j].name, "")]
    IN  Concat([k \in 1..Len(contests) |-> of(contests[k])])

---------------------------------------------------------------------------
(* crawlers/atcoder.py *)

ATFetchSubmissions(api) ==
    IF api.ok THEN [raised |-> FALSE, value |-> api.submissions]
    ELSE [raised |-> TRUE, value |-> <<>>]

\* fetch_problems_map: {} when the request fails.  The map is a sequence of
\* problem_info records in the order of problems.json.
ATFetchProblemsMap(api) == IF api.map_ok THEN api.problems ELSE <<>>

\* problems_map.get(problem_id, {}) followed by .get('title', '') and
\* .get('contest_id', '')
ATProblemInfo(problems_map, pid) ==
    LET hits == SelectSeq(problems_map, LAMBDA p : p.id = pid)
    IN  IF hits = <<>> THEN [id |-> pid, title |-> "", contest_id |-> ""]
        ELSE hits[Len(hits)]

ATHasAc(subs) == \E i \in 1..Len(subs) : subs[i].result = "AC"

ATProblem(pid, info) ==
    [Problem("atcoder", info.contest_id, pid, info.title, "")
        EXCEPT !.url = "https://atcoder.jp/contests/" \o info.contest_id
                            \o "/tasks/" \o pid]

ATGetUnsolvedProblems(submissions, problems_map, only) ==
    LET keys == UniqueInOrder([i \in 1..Len(submissions) |-> submissions[i].problem_id])
        subsOf(pid) == SelectSeq(submissions, LAMBDA sub : sub.problem_id = pid)
        one(pid) ==
            LET info == ATProblemInfo(problems_map, pid)
            IN  IF ATHasAc(subsOf(pid)) THEN <<>>
                ELSE IF only /\ HasPractice(Lower(info.contest_id)) THEN <<>>
                ELSE <<ATProblem(pid, info)>>
    IN  Concat([i \in 1..Len(keys) |-> one(keys[i])])

ATAttempted(submissions) ==
    {submissions[i].problem_id : i \in 1..Len(submissions)} \ {""}

\* the contests of the attempted problems, practice contests left out
ATContestIds(attempted_problems, problems_map) ==
    {ATProblemInfo(problems_map, pid).contest_id : pid \in attempted_problems}
        \ ({""} \cup {c \in {"practice", "Practice", "practice2"} : HasPractice(Lower(c))})

ATGetContestUnattemptedProblems(submissions, problems_map, only) ==
    LET attempted_problems == ATAttempted(submissions)
        contest_ids == ATContestIds(attempted_problems, problems_map)
        one(info) ==
            IF only /\ HasPractice(Lower(info.contest_id)) THEN <<>>
            ELSE IF info.contest_id \notin contest_ids THEN <<>>
            ELSE IF info.id \in attempted_problems THEN <<>>
            ELSE <<ATProblem(info.id, info)>>
    IN  Concat([i \in 1..Len(problems_map) |-> one(problems_map[i])])

---------------------------------------------------------------------------
(* crawlers/leetcode.py *)

\* The entry _fetch_via_rest_api and _extract_data_from_response build from
\* one question of the upstream list
LCEntry(q) ==
    [title     |-> q.title,
     titleSlug |-> q.titleSlug,
     status    |-> IF q.status = Some("ac") THEN "ACCEPTED" ELSE "NOT_ACCEPTED",
     url       |-> "https://leetcode.cn/problems/" \o q.titleSlug \o "/"]

\* only the questions with a status are recorded
LCExtract(questions) ==
    LET kept == SelectSeq(questions, LAMBDA q : q.status # None /\ q.status # Some(""))
    IN  [i \in 1..Len(kept) |-> LCEntry(kept[i])]

\* fetch_submissions: the REST API, then GraphQL, then an exception
LCFetchSubmissions(api) ==
    IF api.rest_ok THEN [raised |-> FALSE, value |-> LCExtract(api.questions)]
    ELSE IF api.gql_ok THEN [raised |-> FALSE, value |-> LCExtract(api.questions)]
    ELSE [raised |-> TRUE, value |-> <<>>]

\* problem_status[title_slug] after the scan
LCHasAc(submissions, slug) ==
    \E i \in 1..Len(submissions) :
        submissions[i].titleSlug = slug /\ submissions[i].status = "ACCEPTED"

LCGetUnsolvedProblems(submissions) ==
    LET keys == UniqueInOrder([i \in 1..Len(submissions) |-> submissions[i].titleSlug])
        first(slug) == SelectSeq(submissions, LAMBDA s : s.titleSlug = slug)[1]
        one(slug) ==
            IF LCHasAc(submissions, slug) THEN <<>>
            ELSE <<Problem("leetcode", slug, "", first(slug).title, first(slug).url)>>
    IN  Concat([i \in 1..Len(keys) |-> one(keys[i])])

MAX_CONTESTS_TO_CHECK == 200

\* the set of titleSlug of the submissions, empty slugs left out
LCAttempted(submissions) ==
    {submissions[i].titleSlug : i \in 1..Len(submissions)} \ {""}

\* fetch_all_contests: [] when every endpoint fails
LCFetchAllContests(cs) == IF cs.ok THEN cs.contests ELSE <<>>

\* fetch_contest_problems(slug): [] when every endpoint fails.  pass is 1 for
\* the calls of fetch_user_contests and 2 for the calls of
\* get_contest_unattempted_problems.
LCFetchContestProblems(cs, slug, pass) ==
    IF slug \in cs.fail[pass] \/ slug \notin DOMAIN cs.questions THEN <<>>
    ELSE cs.questions[slug]

\* fetch_user_contests, given the submissions it fetched
LCFetchUserContests(submissions, cs) ==
    LET attempted_slugs == LCAttempted(submissions)
        all_contests == LCFetchAllContests(cs)
        contests_to_check ==
            SubSeq(all_contests, 1,
                   IF Len(all_contests) < MAX_CONTESTS_TO_CHECK THEN Len(all_contests)
                   ELSE MAX_CONTESTS_TO_CHECK)
        took_part(contest) ==
            /\ contest.titleSlug # ""
            /\ \E q \in Range(LCFetchContestProblems(cs, contest.titleSlug, 1)) :
                  q.titleSlug \in attempted_slugs
    IN  SelectSeq(contests_to_check, took_part)

\* the two nested loops of get_contest_unattempted_problems over the
\* (contest, question) pairs that are left, with the seen_problems set
RECURSIVE LCUnattemptedFrom(_, _, _)
LCUnattemptedFrom(cands, attempted_problems, seen_problems) ==
    IF cands = <<>> THEN <<>>
    ELSE LET contest_title_slug == Head(cands).contest
             problem == Head(cands).question
             title_slug == problem.titleSlug
         IN  IF title_slug = "" \/ title_slug \in attempted_problems
                              \/ title_slug \in seen_problems
             THEN LCUnattemptedFrom(Tail(cands), attempted_problems, seen_problems)
             ELSE <<Problem("leetcode", contest_title_slug, title_slug, problem.title,
                            "https://leetcode.cn/problems/" \o title_slug \o "/")>>
                  \o LCUnattemptedFrom(Tail(cands), attempted_problems,
                                       seen_problems \cup {title_slug})

LCGetContestUnattemptedProblems(submissions, cs) ==
    LET attempted_problems == LCAttempted(submissions)
        contests == SelectSeq(LCFetchUserContests(submissions, cs),
                              LAMBDA c : c.titleSlug # "")
        of(contest) ==
            LET qs == LCFetchContestProblems(cs, contest.titleSlug, 2)
            IN  [j \in 1..Len(qs) |-> [contest |-> contest.titleSlug, question |-> qs[j]]]
    IN  LCUnattemptedFrom(Concat([k \in 1..Len(contests) |-> of(contests[k])]),
                          attempted_problems, {})

---------------------------------------------------------------------------
(* The inputs of the crawlers *)

CFContestIds == {JInt(1), JInt(100001), JNull}
CFName(c, i) == IF c = JInt(1) THEN "Theatre " \o i ELSE "Gym " \o i
CFSubs ==
    {[contestId |-> c, index |-> i, name |-> CFName(c, i), verdict |-> v] :
        c \in CFContestIds, i \in {"A", "B"}, v \in {"OK", "WRONG_ANSWER"}}

ATSubs ==
    {[problem_id |-> p, result |-> r] :
        p \in {"abc100_a", "ABC100_A", "practice_1"}, r \in {"AC", "WA"}}
ATProblemsJson ==
    <<[id |-> "abc100_a", title |-> "Happy Birthday!", contest_id |-> "abc100"],
      [id |-> "abc100_b", title |-> "Ringo's Favorite Numbers", contest_id |-> "abc100"],
      [id |-> "practice_1", title |-> "Welcome to AtCoder", contest_id |-> "practice"]>>

LCQuestions ==
    {[title |-> t[1], titleSlug |-> t[2], status |-> s] :
        t \in {<<"Two Sum", "two-sum">>, <<"3Sum", "3sum">>},
        s \in {Some("ac"), Some("notac"), None}}

\* the contests of the site and their questions
LCContestQuestions ==
    [c \in {"weekly-contest-1", "biweekly-contest-2"} |->
        IF c = "weekly-contest-1"
        THEN <<[title |-> "Two Sum", titleSlug |-> "two-sum"],
               [title |-> "3Sum", titleSlug |-> "3sum"],
               [title |-> "LRU Cache", titleSlug |-> "lru-cache"]>>
        ELSE <<[title |-> "3Sum", titleSlug |-> "3sum"],
               [title |-> "Word Break", titleSlug |-> "word-break"]>>]

LCContest(slug) == [title |-> slug, titleSlug |-> slug]

LCContestApis ==
    {cs \in [ok : BOOLEAN,
             contests : {<<LCContest("weekly-contest-1")>>,
                         <<LCContest("weekly-contest-1"), LCContest("biweekly-contest-2")>>},
             questions : {LCContestQuestions},
             fail : [1..2 -> {{}, {"weekly-contest-1"}, {"biweekly-contest-2"}}]] :
        /\ \A pass \in 1..2 :
              cs.fail[pass] \subseteq {cs.contests[k].titleSlug : k \in 1..Len(cs.contests)}
        /\ cs.ok \/ (Len(cs.contests) = 1 /\ \A pass \in 1..2 : cs.fail[pass] = {})}

LCContestsIdle ==
    [ok |-> FALSE, contests |-> <<>>, questions |-> LCContestQuestions,
     fail |-> [pass \in 1..2 |-> {}]]

\* the contests of Codeforces and their problems
CFContestProblems ==
    [c \in {1, 100001} |->
        <<[index |-> "A", name |-> CFName(JInt(c), "A")],
          [index |-> "B", name |-> CFName(JInt(c), "B")]>>]

CFContestApis ==
    {cc \in [rating_ok : BOOLEAN,
             rating : {<<>>, <<[contestId |-> 1]>>, <<[contestId |-> 100001]>>,
                       <<[contestId |-> 1], [contestId |-> 100001]>>},
             problems : {CFContestProblems},
             fail : SUBSET {1, 100001}] :
        cc.rating_ok \/ (cc.rating = <<>> /\ cc.fail = {})}

CFContestsIdle ==
    [rating_ok |-> FALSE, rating |-> <<>>, problems |-> CFContestProblems, fail |-> {}]

CFIdle == [ok |-> FALSE, result |-> <<>>]
ATIdle == [ok |-> FALSE, submissions |-> <<>>, map_ok |-> FALSE, problems |-> <<>>]
LCIdle == [rest_ok |-> FALSE, gql_ok |-> FALSE, questions |-> <<>>]
NoReturn == [raised |-> FALSE, problems |-> <<>>]


---------------------------------------------------------------------------
(* clist/fetcher.py *)

RATE_LIMIT_BASE_WAIT == 15
NETWORK_BASE_WAIT == 5
DEFAULT_MAX_RETRIES == 3

RECURSIVE Pow2(_)
Pow2(n) == IF n = 0 THEN 1 ELSE 2 * Pow2(n - 1)

\* What the rating service can answer to one GET: a status line with a JSON
\* body, or no answer at all (timeout, connection reset).
Resp200(objects) == [kind |-> "json", code |-> 200, objects |-> objects]
RespStatus(code) == [kind |-> "status", code |-> code, objects |-> <<>>]
RespNotObject == [kind |-> "not_object", code |-> 200, objects |-> <<>>]
NetFail == [kind |-> "network", code |-> 0, objects |-> <<>>]

ResourceOpen(platform) == Some(platform)

\* the closed mapping from platform to Clist resource
Resource(platform) ==
    CASE platform = "codeforces" -> Some("codeforces.com")
      [] platform = "atcoder" -> Some("atcoder.jp")
      [] platform = "leetcode" -> Some("leetcode.com")
      [] OTHER -> None

CacheKey(platform, title) == platform \o "-" \o title

CachePutEvicting(cache, key, info) == [k \in {key} |-> info]

CachePut(cache, key, info) ==
    [k \in DOMAIN cache \cup {key} |-> IF k = key THEN info ELSE cache[k]]

\* response.raise_for_status(): an HTTPError for 4xx and 5xx
RaisesForStatus(r) == r.code >= 400 /\ r.code < 600

\* what the except clause catches: requests.RequestException, which
\* HTTPError, Timeout and ConnectionError all are
Caught(r) == r.kind = "network" \/ (r.kind = "status" /\ RaisesForStatus(r))

\* return from search_problem
SearchReturn(lk, result, outcome) ==
    [lk EXCEPT !.pc = "returned", !.result = result, !.outcome = outcome]

\* time.sleep(wait); continue.  When range(max_retries) is used up the loop
\* ends and the function returns None.
SleepAndRetry(lk, wait) ==
    LET slept == [lk EXCEPT !.sleeps = Append(@, wait), !.attempt = @ + 1]
    IN  IF slept.attempt >= lk.max_retries
        THEN SearchReturn(slept, None, "no_attempt")
        ELSE slept

RetryAllowedAlways(lk) == TRUE

RetryAllowed(lk) == lk.attempt < lk.max_retries - 1

RateLimitWaitConstant(attempt) == RATE_LIMIT_BASE_WAIT

RateLimitWait(attempt) == RATE_LIMIT_BASE_WAIT * Pow2(attempt)

NetworkWait(attempt) == NETWORK_BASE_WAIT * (attempt + 1)

\* One pass of the for loop of search_problem: the request of this attempt
\* is answered by r.  The value is the call's new state and the cache.
SearchAttempt(lk, cache, r) ==
    LET sent == [lk EXCEPT !.responses = Append(@, r)]
        same(l) == [lookup |-> l, cache |-> cache]
    IN  IF r.kind # "network" /\ r.code = 429
        THEN IF RetryAllowed(lk)
             THEN same(SleepAndRetry(sent, RateLimitWait(lk.attempt)))
             ELSE same(SearchReturn(sent, None, "rate_limited"))
        ELSE IF Caught(r)
        THEN IF RetryAllowed(lk)
             THEN same(SleepAndRetry(sent, NetworkWait(lk.attempt)))
             ELSE same(SearchReturn(sent, None, "failed"))
        ELSE IF r.kind = "not_object"
        THEN same(SearchReturn(sent, None, "raised"))
        ELSE IF r.objects # <<>>
        THEN [lookup |-> SearchReturn(sent, Some(r.objects[1]), "found"),
              cache |-> CachePut(cache, lk.cache_key, r.objects[1])]
        ELSE same(SearchReturn(sent, None, "not_found"))

CacheLookupNever(cache, key) == FALSE

CacheLookup(cache, key) == key \in DOMAIN cache

\* search_problem up to its first request: the platform mapping, the cache
\* check and the entry of the retry loop
SearchEnter(cache, platform, title, max_retries) ==
    LET lk == [platform |-> platform, title |-> title, max_retries |-> max_retries,
               cache_key |-> CacheKey(platform, title), attempt |-> 0,
               responses |-> <<>>, sleeps |-> <<>>, result |-> None,
               outcome |-> "", cache_checked |-> TRUE, pc |-> "requesting"]
    IN  IF Resource(platform) = None
        THEN SearchReturn([lk EXCEPT !.cache_checked = FALSE], None, "unknown_platform")
        ELSE IF CacheLookup(cache, lk.cache_key)
        THEN SearchReturn(lk, Some(cache[lk.cache_key]), "hit")
        ELSE IF max_retries <= 0
        THEN SearchReturn(lk, None, "no_attempt")
        ELSE lk

---------------------------------------------------------------------------
(* The inputs of the fetcher *)

InfoA == [name |-> "first match", rating |-> Some(1500)]
InfoB == [name |-> "other match", rating |-> None]
InfoZero == [name |-> "zero match", rating |-> Some(0)]

Responses ==
    {Resp200(<<>>), Resp200(<<InfoA>>), Resp200(<<InfoB, InfoA>>), Resp200(<<InfoZero>>),
     RespStatus(429), RespStatus(404), NetFail, RespNotObject}

FetchPlatforms == {"codeforces", "atcoder", "leetcode", "luogu"}
Titles == {"Two Sum", "3Sum"}

EmptyCache == [k \in {} |-> InfoA]
NoLookup ==
    [platform |-> "", title |-> "", max_retries |-> 0, cache_key |-> "",
     attempt |-> 0, responses |-> <<>>, sleeps |-> <<>>, result |-> None,
     outcome |-> "", cache_checked |-> FALSE, pc |-> "idle"]

FetchIdle ==
    /\ PROBLEM_CACHE = EmptyCache
    /\ lookup = NoLookup
    /\ stored = EmptyCache
    /\ completed = {}
    /\ ncalls = 0

DEFAULT_DELAY == 5

DefaultPriority ==
    [p \in {"codeforces", "atcoder", "leetcode"} |->
        CASE p = "codeforces" -> 1 [] p = "atcoder" -> 2 [] p = "leetcode" -> 3]

NoBatch == [pc |-> "idle", i |-> 0, delay |-> DEFAULT_DELAY, steps |-> <<>>]

NoFiles == [json |-> None, csv |-> None, markdown |-> None]

NoConfig == [loaded |-> FALSE]

BatchIdle ==
    /\ problems = <<>>
    /\ batch = NoBatch

ExportIdle ==
    /\ PLATFORM_PRIORITY = DefaultPriority
    /\ sorted_problems = None
    /\ files = NoFiles

MainIdle ==
    /\ config = NoConfig
    /\ main_pc = "not_started"
    /\ all_problems = <<>>

CrawlIdle ==
    /\ crawler = ""
    /\ include_gym = TRUE
    /\ contest_only = TRUE
    /\ cf_api = CFIdle
    /\ at_api = ATIdle
    /\ lc_api = LCIdle
    /\ lc_contests = LCContestsIdle
    /\ cf_contests = CFContestsIdle
    /\ call = ""
    /\ returned = NoReturn

---------------------------------------------------------------------------
(* The fetcher, search_problem called directly *)

InitFetch == CrawlIdle /\ FetchIdle /\ BatchIdle /\ ExportIdle /\ MainIdle

\* the bookkeeping of the two history variables when a call returns
Recorded(lk) ==
    /\ stored' = IF lk.outcome = "found"
                 THEN CachePut(stored, <<lk.platform, lk.title>>, lk.result[1])
                 ELSE stored
    /\ completed' = IF lk.outcome \in {"found", "not_found"}
                    THEN completed \cup {<<lk.platform, lk.title>>}
                    ELSE completed

\* a caller invokes search_problem(platform, title, max_retries)
SearchProblemCall ==
    /\ lookup.pc # "requesting"
    /\ ncalls < MaxCalls
    /\ \E platform \in FetchPlatforms, title \in Titles, max_retries \in 1..MaxRetries :
          lookup' = SearchEnter(PROBLEM_CACHE, platform, title, max_retries)
    /\ ncalls' = ncalls + 1
    /\ UNCHANGED <<PROBLEM_CACHE, stored, completed, crawlVars, batchVars,
                   exportVars, mainVars>>

\* the request of the current attempt is sent and answered
SearchProblemAttempt ==
    /\ lookup.pc = "requesting"
    /\ \E r \in Responses :
          LET out == SearchAttempt(lookup, PROBLEM_CACHE, r)
          IN  /\ lookup' = out.lookup
              /\ PROBLEM_CACHE' = out.cache
              /\ IF out.lookup.pc = "returned" THEN Recorded(out.lookup)
                 ELSE UNCHANGED <<stored, completed>>
    /\ UNCHANGED <<ncalls, crawlVars, batchVars, exportVars, mainVars>>

NextFetch == SearchProblemCall \/ SearchProblemAttempt

SpecFetch == InitFetch /\ [][NextFetch]_vars

---------------------------------------------------------------------------
(* clist/fetcher.py: fetch_rating and fetch_ratings_batch *)

FetchRatingZeroDefault(result) ==
    IF result # None /\ result[1].rating # None /\ result[1].rating[1] # 0
    THEN result[1].rating
    ELSE Some(0)

\* fetch_rating, after search_problem returned result
FetchRating(result) ==
    IF result # None
    THEN LET rating == result[1].rating
         IN  IF rating # None /\ rating[1] # 0 THEN rating ELSE None
    ELSE None

\* the loop of fetch_ratings_batch is entered
BatchEnter(ps, delay) ==
    [pc |-> IF ps = <<>> THEN "done" ELSE "loop", i |-> 0,
     delay |-> delay, steps |-> <<>>]

\* if i < total: time.sleep(delay)
DelaySlept(i, total, lk) == i < total

\* the next problem of the list: fetch_rating calls search_problem
BatchFetchRating ==
    /\ batch.pc = "loop"
    /\ LET problem == problems[batch.i + 1]
       IN  lookup' = SearchEnter(PROBLEM_CACHE, problem.platform, problem.title,
                                 DEFAULT_MAX_RETRIES)
    /\ batch' = [batch EXCEPT !.pc = "fetch_rating", !.i = @ + 1]
    /\ ncalls' = ncalls + 1
    /\ UNCHANGED <<PROBLEM_CACHE, stored, completed, problems, crawlVars,
                   exportVars, mainVars>>

\* fetch_rating returned (or search_problem raised): the rating is written
\* and the delay is slept
BatchAfterRating ==
    /\ batch.pc = "fetch_rating"
    /\ lookup.pc = "returned"
    /\ LET i == batch.i
           total == Len(problems)
           rating == FetchRating(lookup.result)
           step(d) == [problem_id |-> problems[i].problem_id,
                       requests |-> Len(lookup.responses),
                       outcome |-> lookup.outcome, info |-> lookup.result,
                       delay |-> d]
       IN  IF lookup.outcome = "raised"
           THEN /\ batch' = [batch EXCEPT !.pc = "raised",
                                          !.steps = Append(@, step(None))]
                /\ UNCHANGED problems
           ELSE /\ problems' = IF rating # None
                               THEN [problems EXCEPT ![i].clist_rating = rating]
                               ELSE problems
                /\ batch' = [batch EXCEPT
                       !.pc = IF i < total THEN "loop" ELSE "done",
                       !.steps = Append(@, step(IF DelaySlept(i, total, lookup)
                                                THEN Some(batch.delay) ELSE None))]
    /\ UNCHANGED <<fetchVars, crawlVars, exportVars, mainVars>>

---------------------------------------------------------------------------
(* The fetcher, fetch_ratings_batch called on a list of problems *)

BatchProblems ==
    {Problem("codeforces", "1", "A", "Two Sum", ""),
     Problem("codeforces", "2", "B", "Two Sum", ""),
     Problem("atcoder", "abc100", "abc100_a", "3Sum", "")}

InitBatch ==
    /\ CrawlIdle /\ FetchIdle /\ ExportIdle /\ MainIdle
    /\ problems \in SeqsUpTo(BatchProblems, MaxProblems)
    /\ batch = NoBatch

FetchRatingsBatchCall ==
    /\ batch.pc = "idle"
    /\ batch' = BatchEnter(problems, DEFAULT_DELAY)
    /\ UNCHANGED <<problems, fetchVars, crawlVars, exportVars, mainVars>>

NextBatch ==
    \/ FetchRatingsBatchCall
    \/ BatchFetchRating
    \/ SearchProblemAttempt
    \/ BatchAfterRating

SpecBatch == InitBatch /\ [][NextBatch]_vars

---------------------------------------------------------------------------
(* exporter/export.py *)

UNSET_RATING_KEY == 99999
UNKNOWN_PLATFORM_PRIORITY == 99

\* Exporter.PLATFORM_PRIORITY.get(platform, 99)
PriorityOf(priority, platform) ==
    IF platform \in DOMAIN priority THEN priority[platform]
    ELSE UNKNOWN_PLATFORM_PRIORITY

\* sort_key(problem): (rating, priority)
SortKey(priority, problem) ==
    <<IF problem.clist_rating # None THEN problem.clist_rating[1]
      ELSE UNSET_RATING_KEY,
      PriorityOf(priority, problem.platform)>>

\* tuple comparison a <= b
KeyLeq(a, b) == a[1] < b[1] \/ (a[1] = b[1] /\ a[2] <= b[2])

\* x is put behind every element whose key is not greater: equal keys keep
\* their order, as in Python's sorted
RECURSIVE InsertStable(_, _, _)
InsertStable(priority, x, s) ==
    IF s = <<>> THEN <<x>>
    ELSE IF KeyLeq(SortKey(priority, s[Len(s)]), SortKey(priority, x))
    THEN Append(s, x)
    ELSE Append(InsertStable(priority, x, SubSeq(s, 1, Len(s) - 1)), s[Len(s)])

RECURSIVE SortedByKey(_, _)
SortedByKey(priority, ps) ==
    IF ps = <<>> THEN <<>>
    ELSE InsertStable(priority, ps[Len(ps)],
                      SortedByKey(priority, SubSeq(ps, 1, Len(ps) - 1)))

\* Exporter.sort_problems(problems)
sort_problems(priority, ps) == SortedByKey(priority, ps)

\* export_json and export_csv write the list as it is given
ExportJson(ps) == ps
ExportCsv(ps) == ps

\* export_markdown sorts, then writes the table
ExportMarkdown(priority, ps) == sort_problems(priority, ps)

---------------------------------------------------------------------------
(* The exporter, sort_problems called on a list of problems *)

Rated(p, r) == [p EXCEPT !.clist_rating = r]

SortRatings == {None, Some(800), Some(100000)}

SortInputs ==
    {Rated(Problem(pl, c, "A", "Two Sum", ""), r) :
        pl \in {"codeforces", "atcoder", "leetcode"}, c \in {"1", "2"},
        r \in SortRatings}

\* a config.yaml override of the priorities that leaves AtCoder out
OverridePriority ==
    [p \in {"codeforces", "leetcode"} |-> IF p = "leetcode" THEN 1 ELSE 2]

InitSort ==
    /\ CrawlIdle /\ FetchIdle /\ MainIdle
    /\ batch = NoBatch
    /\ problems \in SeqsUpTo(SortInputs, MaxSortLen)
    /\ PLATFORM_PRIORITY \in {DefaultPriority, OverridePriority}
    /\ sorted_problems = None
    /\ files = NoFiles

SortProblemsCall ==
    /\ sorted_problems = None
    /\ sorted_problems' = Some(sort_problems(PLATFORM_PRIORITY, problems))
    /\ UNCHANGED <<problems, batch, PLATFORM_PRIORITY, files, crawlVars, fetchVars,
                   mainVars>>

NextSort == SortProblemsCall

SpecSort == InitSort /\ [][NextSort]_vars

---------------------------------------------------------------------------
(* main.py *)

\* str.strip() on the handles of the model
Strip(s) == IF s = "  " THEN "" ELSE s

\* problems[::-1]
RECURSIVE Reverse(_)
Reverse(s) == IF s = <<>> THEN <<>> ELSE Append(Reverse(Tail(s)), Head(s))

CrawledIgnoringHandle(enabled, configured, result) ==
    IF enabled /\ ~result.raised THEN result.problems ELSE <<>>

\* what one platform block of crawl_all_problems adds to all_problems:
\* nothing when the platform is disabled, has no handle, or its crawl raised
Crawled(enabled, configured, result) ==
    IF enabled /\ configured /\ ~result.raised THEN result.problems ELSE <<>>

CFCrawl ==
    LET f == CFFetchSubmissions(cf_api)
    IN  IF f.raised THEN [raised |-> TRUE, problems |-> <<>>]
        ELSE [raised |-> FALSE,
              problems |-> CFGetUnsolvedProblems(f.value, config.codeforces.include_gym)]

ATCrawl ==
    LET f == ATFetchSubmissions(at_api)
    IN  IF f.raised THEN [raised |-> TRUE, problems |-> <<>>]
        ELSE [raised |-> FALSE,
              problems |-> ATGetUnsolvedProblems(f.value, ATFetchProblemsMap(at_api),
                                                 config.atcoder.contest_only)]

\* crawler.get_all_attempted_problems(): LeetCodeCrawler defines no such
\* method, the call raises AttributeError
LCCrawl == [raised |-> TRUE, problems |-> <<>>]

\* the Codeforces block of crawl_all_problems
CrawlCodeforces ==
    /\ main_pc = "crawl_codeforces"
    /\ LET cfg == config.codeforces
           ran == cfg.enabled /\ Strip(cfg.handle) # ""
       IN  /\ all_problems' = all_problems \o Crawled(cfg.enabled, Strip(cfg.handle) # "", CFCrawl)
           /\ IF ran
              THEN /\ crawler' = "codeforces"
                   /\ include_gym' = cfg.include_gym
                   /\ call' = "get_unsolved_problems"
                   /\ returned' = CFCrawl
              ELSE UNCHANGED <<crawler, include_gym, call, returned>>
    /\ main_pc' = "crawl_atcoder"
    /\ UNCHANGED <<contest_only, cf_api, at_api, lc_api, lc_contests, cf_contests, config, fetchVars, batchVars,
                   exportVars>>

\* the AtCoder block of crawl_all_problems
CrawlAtCoder ==
    /\ main_pc = "crawl_atcoder"
    /\ LET cfg == config.atcoder
           ran == cfg.enabled /\ Strip(cfg.handle) # ""
       IN  /\ all_problems' = all_problems \o Crawled(cfg.enabled, Strip(cfg.handle) # "", ATCrawl)
           /\ IF ran
              THEN /\ crawler' = "atcoder"
                   /\ contest_only' = cfg.contest_only
                   /\ call' = "get_unsolved_problems"
                   /\ returned' = ATCrawl
              ELSE UNCHANGED <<crawler, contest_only, call, returned>>
    /\ main_pc' = "crawl_leetcode"
    /\ UNCHANGED <<include_gym, cf_api, at_api, lc_api, lc_contests, cf_contests, config, fetchVars, batchVars,
                   exportVars>>

\* the LeetCode block of crawl_all_problems, and its return
CrawlLeetCode ==
    /\ main_pc = "crawl_leetcode"
    /\ LET cfg == config.leetcode
           ran == cfg.enabled /\ cfg.cookies
       IN  /\ all_problems' = all_problems \o Crawled(cfg.enabled, cfg.cookies, LCCrawl)
           /\ IF ran
              THEN /\ crawler' = "leetcode"
                   /\ call' = "get_all_attempted_problems"
                   /\ returned' = LCCrawl
              ELSE UNCHANGED <<crawler, call, returned>>
    /\ main_pc' = "crawled"
    /\ UNCHANGED <<include_gym, contest_only, cf_api, at_api, lc_api, lc_contests, cf_contests, config,
                   fetchVars, batchVars, exportVars>>

\* main after crawl_all_problems: the early return, the reversal, and the
\* entry of fetch_ratings
MainFetchRatings ==
    /\ main_pc = "crawled"
    /\ IF all_problems = <<>>
       THEN /\ main_pc' = "done"
            /\ UNCHANGED batchVars
       ELSE /\ problems' = Reverse(all_problems)
            /\ IF Strip(config.clist_api_key) = ""
               THEN /\ main_pc' = "export"
                    /\ UNCHANGED batch
               ELSE /\ main_pc' = "fetch_ratings"
                    /\ batch' = BatchEnter(problems', DEFAULT_DELAY)
    /\ UNCHANGED <<config, all_problems, crawlVars, fetchVars, exportVars>>

FetchRatingsReturnedOnlyOnSuccess == batch.pc = "done"

\* fetch_ratings returns when the batch is through, or when it raised: the
\* try / except Exception around fetch_ratings_batch
FetchRatingsReturned == batch.pc \in {"done", "raised"}

\* export_results(problems, config)
MainExportResults ==
    /\ \/ main_pc = "export"
       \/ main_pc = "fetch_ratings" /\ FetchRatingsReturned
    /\ PLATFORM_PRIORITY' = IF config.platform_priority # None
                            THEN config.platform_priority[1]
                            ELSE PLATFORM_PRIORITY
    /\ files' = [json |-> IF "json" \in config.formats
                          THEN Some(ExportJson(problems)) ELSE None,
                 csv |-> IF "csv" \in config.formats
                         THEN Some(ExportCsv(problems)) ELSE None,
                 markdown |-> IF "markdown" \in config.formats
                              THEN Some(ExportMarkdown(PLATFORM_PRIORITY', problems))
                              ELSE None]
    /\ main_pc' = "done"
    /\ UNCHANGED <<sorted_problems, config, all_problems, crawlVars, fetchVars, batchVars>>

---------------------------------------------------------------------------
(* The pipeline: main on a config and the answers of the upstream APIs *)

CFSub(c, i, v) == [contestId |-> JInt(c), index |-> i, name |-> CFName(JInt(c), i), verdict |-> v]
ATSub(p, r) == [problem_id |-> p, result |-> r]

MainCF ==
    {CFIdle,
     [ok |-> TRUE, result |-> <<CFSub(1, "A", "WRONG_ANSWER")>>]}

MainAT ==
    {ATIdle,
     [ok |-> TRUE, submissions |-> <<ATSub("abc100_a", "WA")>>,
      map_ok |-> TRUE, problems |-> ATProblemsJson],
     [ok |-> TRUE, submissions |-> <<ATSub("abc100_a", "WA"), ATSub("ABC100_A", "WA")>>,
      map_ok |-> FALSE, problems |-> <<>>]}

MainLC ==
    {[rest_ok |-> TRUE, gql_ok |-> TRUE,
      questions |-> <<[title |-> "Two Sum", titleSlug |-> "two-sum",
                       status |-> Some("notac")]>>]}

Configs ==
    [codeforces : [enabled : BOOLEAN, handle : {"", "tourist"}, include_gym : {TRUE}],
     atcoder : [enabled : BOOLEAN, handle : {"chokudai"}, contest_only : {TRUE}],
     leetcode : [enabled : BOOLEAN, cookies : {TRUE}],
     clist_api_key : {"", "key"},
     formats : {{"json", "csv", "markdown"}, {"markdown"}},
     platform_priority : {None, Some(OverridePriority)}]

InitMain ==
    /\ FetchIdle /\ BatchIdle /\ ExportIdle
    /\ crawler = ""
    /\ include_gym = TRUE
    /\ contest_only = TRUE
    /\ call = ""
    /\ returned = NoReturn
    /\ cf_api \in MainCF
    /\ at_api \in MainAT
    /\ lc_api \in MainLC
    /\ lc_contests = LCContestsIdle
    /\ cf_contests = CFContestsIdle
    /\ config \in Configs
    /\ main_pc = "crawl_codeforces"
    /\ all_problems = <<>>

NextMain ==
    \/ CrawlCodeforces
    \/ CrawlAtCoder
    \/ CrawlLeetCode
    \/ MainFetchRatings
    \/ BatchFetchRating
    \/ SearchProblemAttempt
    \/ BatchAfterRating
    \/ MainExportResults

SpecMain == InitMain /\ [][NextMain]_vars

\* main runs to its end: no step of it waits for anything but an upstream
\* answer, and every request has a timeout
MainFairConfigs ==
    {c \in Configs : /\ c.platform_priority = None
                     /\ c.formats = {"json", "csv", "markdown"}
                     /\ c.codeforces.handle = "tourist"
                     /\ c.leetcode.enabled}

InitMainFair == InitMain /\ config \in MainFairConfigs

SpecMainFair == InitMainFair /\ [][NextMain]_vars /\ WF_vars(NextMain)

---------------------------------------------------------------------------
(* The crawlers, one call on one crawler object *)

InitCrawl ==
    /\ FetchIdle
    /\ BatchIdle
    /\ ExportIdle
    /\ MainIdle
    /\ call = ""
    /\ returned = NoReturn
    /\ \/ /\ crawler = "codeforces"
          /\ include_gym \in BOOLEAN
          /\ contest_only = TRUE
          /\ cf_api \in [ok : BOOLEAN, result : SeqsUpTo(CFSubs, MaxSubs)]
          /\ cf_api.ok \/ cf_api.result = <<>>
          /\ at_api = ATIdle
          /\ lc_api = LCIdle
          /\ lc_contests = LCContestsIdle
          /\ cf_contests = CFContestsIdle
       \/ /\ crawler = "atcoder"
          /\ include_gym = TRUE
          /\ contest_only \in BOOLEAN
          /\ cf_api = CFIdle
          /\ at_api \in [ok : BOOLEAN, submissions : SeqsUpTo(ATSubs, MaxSubs),
                         map_ok : BOOLEAN, problems : {ATProblemsJson}]
          /\ at_api.ok \/ (at_api.submissions = <<>> /\ at_api.map_ok)
          /\ lc_api = LCIdle
          /\ lc_contests = LCContestsIdle
          /\ cf_contests = CFContestsIdle
       \/ /\ crawler = "leetcode"
          /\ include_gym = TRUE
          /\ contest_only = TRUE
          /\ cf_api = CFIdle
          /\ at_api = ATIdle
          /\ lc_api \in [rest_ok : BOOLEAN, gql_ok : BOOLEAN,
                         questions : SeqsUpTo(LCQuestions, MaxSubs)]
          /\ (lc_api.rest_ok \/ lc_api.gql_ok) \/ lc_api.questions = <<>>
          /\ lc_contests \in LCContestApis
          /\ cf_contests = CFContestsIdle

CFGetUnsolved ==
    /\ crawler = "codeforces"
    /\ call = ""
    /\ LET f == CFFetchSubmissions(cf_api)
       IN  returned' =
             IF f.raised THEN [raised |-> TRUE, problems |-> <<>>]
             ELSE [raised |-> FALSE,
                   problems |-> CFGetUnsolvedProblems(f.value, include_gym)]
    /\ call' = "get_unsolved_problems"
    /\ UNCHANGED <<crawler, include_gym, contest_only, cf_api, at_api, lc_api, lc_contests, cf_contests,
                 fetchVars, batchVars, exportVars, mainVars>>

ATGetUnsolved ==
    /\ crawler = "atcoder"
    /\ call = ""
    /\ LET f == ATFetchSubmissions(at_api)
       IN  returned' =
             IF f.raised THEN [raised |-> TRUE, problems |-> <<>>]
             ELSE [raised |-> FALSE,
                   problems |-> ATGetUnsolvedProblems(
                                    f.value, ATFetchProblemsMap(at_api), contest_only)]
    /\ call' = "get_unsolved_problems"
    /\ UNCHANGED <<crawler, include_gym, contest_only, cf_api, at_api, lc_api, lc_contests, cf_contests,
                 fetchVars, batchVars, exportVars, mainVars>>

LCGetUnsolved ==
    /\ crawler = "leetcode"
    /\ call = ""
    /\ LET f == LCFetchSubmissions(lc_api)
       IN  returned' =
             IF f.raised THEN [raised |-> TRUE, problems |-> <<>>]
             ELSE [raised |-> FALSE, problems |-> LCGetUnsolvedProblems(f.value)]
    /\ call' = "get_unsolved_problems"
    /\ UNCHANGED <<crawler, include_gym, contest_only, cf_api, at_api, lc_api, lc_contests, cf_contests,
                 fetchVars, batchVars, exportVars, mainVars>>

LCGetContestUnattempted ==
    /\ crawler = "leetcode"
    /\ call = ""
    /\ LET f == LCFetchSubmissions(lc_api)
       IN  returned' =
             IF f.raised THEN [raised |-> TRUE, problems |-> <<>>]
             ELSE [raised |-> FALSE,
                   problems |-> LCGetContestUnattemptedProblems(f.value, lc_contests)]
    /\ call' = "get_contest_unattempted_problems"
    /\ UNCHANGED <<crawler, include_gym, contest_only, cf_api, at_api, lc_api, lc_contests, cf_contests,
                   fetchVars, batchVars, exportVars, mainVars>>

NextCrawl ==
    \/ CFGetUnsolved
    \/ ATGetUnsolved
    \/ LCGetUnsolved
    \/ LCGetContestUnattempted

SpecCrawl == InitCrawl /\ [][NextCrawl]_vars

---------------------------------------------------------------------------
(* The crawlers, one call of get_contest_unattempted_problems *)

InitContests ==
    /\ FetchIdle
    /\ BatchIdle
    /\ ExportIdle
    /\ MainIdle
    /\ call = ""
    /\ returned = NoReturn
    /\ \/ /\ crawler = "codeforces"
          /\ include_gym \in BOOLEAN
          /\ contest_only = TRUE
          /\ cf_api \in [ok : BOOLEAN, result : SeqsUpTo(CFSubs, MaxContestSubs)]
          /\ cf_api.ok \/ cf_api.result = <<>>
          /\ cf_contests \in CFContestApis
          /\ at_api = ATIdle
          /\ lc_api = LCIdle
          /\ lc_contests = LCContestsIdle
       \/ /\ crawler = "atcoder"
          /\ include_gym = TRUE
          /\ contest_only \in BOOLEAN
          /\ cf_api = CFIdle
          /\ cf_contests = CFContestsIdle
          /\ at_api \in [ok : BOOLEAN, submissions : SeqsUpTo(ATSubs, MaxContestSubs),
                         map_ok : BOOLEAN, problems : {ATProblemsJson}]
          /\ at_api.ok \/ (at_api.submissions = <<>> /\ at_api.map_ok)
          /\ lc_api = LCIdle
          /\ lc_contests = LCContestsIdle
       \/ /\ crawler = "leetcode"
          /\ include_gym = TRUE
          /\ contest_only = TRUE
          /\ cf_api = CFIdle
          /\ cf_contests = CFContestsIdle
          /\ at_api = ATIdle
          /\ lc_api \in [rest_ok : BOOLEAN, gql_ok : BOOLEAN,
                         questions : SeqsUpTo(LCQuestions, MaxContestSubs)]
          /\ (lc_api.rest_ok \/ lc_api.gql_ok) \/ lc_api.questions = <<>>
          /\ lc_contests \in LCContestApis

CFGetContestUnattempted ==
    /\ crawler = "codeforces"
    /\ call = ""
    /\ LET f == CFFetchSubmissions(cf_api)
           c == CFFetchUserContests(cf_contests)
       IN  returned' =
             IF f.raised \/ c.raised THEN [raised |-> TRUE, problems |-> <<>>]
             ELSE [raised |-> FALSE,
                   problems |-> CFGetContestUnattemptedProblems(
                                    f.value, c.value, cf_contests, include_gym)]
    /\ call' = "get_contest_unattempted_problems"
    /\ UNCHANGED <<crawler, include_gym, contest_only, cf_api, at_api, lc_api, lc_contests, cf_contests,
                   fetchVars, batchVars, exportVars, mainVars>>

ATGetContestUnattempted ==
    /\ crawler = "atcoder"
    /\ call = ""
    /\ LET f == ATFetchSubmissions(at_api)
       IN  returned' =
             IF f.raised THEN [raised |-> TRUE, problems |-> <<>>]
             ELSE [raised |-> FALSE,
                   problems |-> ATGetContestUnattemptedProblems(
                                    f.value, ATFetchProblemsMap(at_api), contest_only)]
    /\ call' = "get_contest_unattempted_problems"
    /\ UNCHANGED <<crawler, include_gym, contest_only, cf_api, at_api, lc_api, lc_contests, cf_contests,
                   fetchVars, batchVars, exportVars, mainVars>>

NextContests ==
    \/ CFGetContestUnattempted
    \/ ATGetContestUnattempted
    \/ LCGetContestUnattempted

SpecContests == InitContests /\ [][NextContests]_vars

---------------------------------------------------------------------------
(* The Problem entity: instances are built and their rating is written *)

ProblemPlatforms == {"codeforces", "atcoder", "leetcode", "luogu"}
ProblemIndexes == {"abc100_a", "ABC100_A"}
ProblemTitles == {"Two Sum", "3Sum"}
ProblemUrls == {"", "https://example.org/problem"}
ProblemRatings == {800}

InitProblem ==
    /\ CrawlIdle /\ FetchIdle /\ ExportIdle /\ MainIdle
    /\ problems = <<>>
    /\ batch = NoBatch

\* Problem(platform, contest_id, problem_index, title, url)
ConstructProblem ==
    /\ Len(problems) < MaxBuilt
    /\ \E platform \in ProblemPlatforms, problem_index \in ProblemIndexes,
          title \in ProblemTitles, url \in ProblemUrls :
          problems' = Append(problems, Problem(platform, "1", problem_index, title, url))
    /\ UNCHANGED <<batch, crawlVars, fetchVars, exportVars, mainVars>>

\* problem.clist_rating = rating
SetRating ==
    /\ \E i \in 1..Len(problems), rating \in ProblemRatings :
          /\ problems[i].clist_rating = None
          /\ problems' = [problems EXCEPT ![i].clist_rating = Some(rating)]
    /\ UNCHANGED <<batch, crawlVars, fetchVars, exportVars, mainVars>>

NextProblem == ConstructProblem \/ SetRating

SpecProblem == InitProblem /\ [][NextProblem]_vars

---------------------------------------------------------------------------
(* Claims about get_unsolved_problems *)

Bijections(S) == {f \in [S -> S] : \A y \in S : \E x \in S : f[x] = y}
PermsOf(s) == {[i \in 1..Len(s) |-> s[f[i]]] : f \in Bijections(1..Len(s))}

\* the submission history the crawler under test works on
History ==
    CASE crawler = "codeforces" -> cf_api.result
      [] crawler = "atcoder" -> at_api.submissions
      [] crawler = "leetcode" -> LCExtract(lc_api.questions)

GroupKey(sub) ==
    CASE crawler = "codeforces" -> <<sub.contestId, sub.index>>
      [] crawler = "atcoder" -> sub.problem_id
      [] crawler = "leetcode" -> sub.titleSlug

Groups == {GroupKey(History[i]) : i \in 1..Len(History)}

Accepted(g) ==
    \E i \in 1..Len(History) :
        /\ GroupKey(History[i]) = g
        /\ CASE crawler = "codeforces" -> History[i].verdict = "OK"
             [] crawler = "atcoder" -> History[i].result = "AC"
             [] crawler = "leetcode" -> History[i].status = "ACCEPTED"

\* the group belongs to a pool the configuration excludes: a Codeforces Gym
\* contest with include_gym off, an AtCoder practice contest with
\* contest_only on
Excluded(g) ==
    CASE crawler = "codeforces" ->
            ~include_gym /\ g[1].t = "int" /\ g[1].v >= 100000
      [] crawler = "atcoder" ->
            /\ contest_only
            /\ at_api.map_ok
            /\ \E i \in 1..Len(at_api.problems) :
                  /\ at_api.problems[i].id = g
                  /\ at_api.problems[i].contest_id \in {"practice", "Practice"}
      [] crawler = "leetcode" -> FALSE

ReturnedFor(g) ==
    \E i \in 1..Len(returned.problems) :
        LET p == returned.problems[i]
        IN  CASE crawler = "codeforces" ->
                    p.contest_id = PyStr(g[1]) /\ p.problem_index = g[2]
              [] crawler = "atcoder" -> p.problem_index = g
              [] crawler = "leetcode" -> p.contest_id = g

GetUnsolvedOf(h) ==
    CASE crawler = "codeforces" -> CFGetUnsolvedProblems(h, include_gym)
      [] crawler = "atcoder" ->
            ATGetUnsolvedProblems(h, ATFetchProblemsMap(at_api), contest_only)
      [] crawler = "leetcode" -> LCGetUnsolvedProblems(h)

Ids(ps) == {ps[i].problem_id : i \in 1..Len(ps)}

UnsolvedReturned == call = "get_unsolved_problems" /\ ~returned.raised

ReorderInvariant ==
    \A h \in PermsOf(History) : Ids(GetUnsolvedOf(h)) = Ids(returned.problems)

\* C1 as stated: a Problem is returned for a submission group exactly when
\* no submission of the group has the accepted verdict, and the returned
\* identities are the same for every reordering of the history.
C1_AsStated ==
    UnsolvedReturned =>
        /\ \A g \in Groups : ReturnedFor(g) <=> ~Accepted(g)
        /\ ReorderInvariant

\* C1 amended: a Problem is returned for a submission group exactly when no
\* submission of the group has the accepted verdict and the group is not in
\* a pool the configuration excludes (Gym with include_gym off, practice with
\* contest_only on); the returned identities are the same for every
\* reordering of the history.
C1_UnsolvedIffNoAcceptedAndNotExcluded ==
    UnsolvedReturned =>
        /\ \A g \in Groups : ReturnedFor(g) <=> (~Accepted(g) /\ ~Excluded(g))
        /\ ReorderInvariant

\* a history of three groups: one returned, one accepted, one excluded
C1_Witness ==
    /\ UnsolvedReturned
    /\ Len(History) = 3
    /\ \E g \in Groups : ReturnedFor(g)
    /\ \E g \in Groups : Accepted(g)
    /\ \E g \in Groups : ~Accepted(g) /\ Excluded(g) /\ ~ReturnedFor(g)

---------------------------------------------------------------------------
(* Claims about search_problem *)

Codes(resps) == [k \in 1..Len(resps) |-> IF resps[k].kind = "json" THEN 200
                                         ELSE IF resps[k].kind = "status" THEN resps[k].code
                                         ELSE 0]

LookupPair == <<lookup.platform, lookup.title>>

\* C2: when the service answers 429, 429, 200, search_problem with
\* max_retries = 3 succeeds after exactly 2 backoff sleeps, the second
\* strictly longer than the first; with max_retries = 1 a first 429 makes the
\* call return no result after 0 sleeps and one request.
C2_RetryPolicy ==
    /\ (lookup.max_retries = 3 /\ Codes(lookup.responses) = <<429, 429, 200>>) =>
          /\ lookup.pc = "returned"
          /\ lookup.outcome \in {"found", "not_found"}
          /\ Len(lookup.sleeps) = 2
          /\ lookup.sleeps[2] > lookup.sleeps[1]
    /\ (lookup.max_retries = 1 /\ lookup.responses # <<>>
            /\ Codes(lookup.responses)[1] = 429) =>
          /\ lookup.pc = "returned"
          /\ lookup.outcome = "rate_limited"
          /\ lookup.result = None
          /\ lookup.sleeps = <<>>
          /\ Len(lookup.responses) = 1

C2_Witness ==
    /\ lookup.max_retries = 3
    /\ Codes(lookup.responses) = <<429, 429, 200>>
    /\ lookup.outcome = "found"
    /\ lookup.sleeps = <<15, 30>>

\* C3: an HTTP 4xx answer other than 429 ends the lookup at once: it is the
\* last request of the call, the call has returned without a result, and no
\* backoff sleep follows it.
C3_NoRetryOn4xx ==
    \A k \in 1..Len(lookup.responses) :
        LET code == Codes(lookup.responses)[k]
        IN  (code >= 400 /\ code < 500 /\ code # 429) =>
                /\ k = Len(lookup.responses)
                /\ lookup.pc = "returned"
                /\ lookup.result = None
                /\ Len(lookup.sleeps) < k

\* C4: once a call for (platform, title) missed the cache and stored a
\* result, no call for that pair sends a request, and every call for it
\* returns the stored result.
C4_CacheRoundTrip ==
    LookupPair \in DOMAIN stored =>
        /\ lookup.pc = "returned"
        /\ lookup.result = Some(stored[LookupPair])
        /\ lookup.outcome = "hit" => lookup.responses = <<>>
        /\ lookup.outcome \in {"hit", "found"}

C4_Witness ==
    /\ LookupPair \in DOMAIN stored
    /\ lookup.outcome = "hit"
    /\ lookup.responses = <<>>
    /\ ncalls = 3
    /\ Cardinality(DOMAIN stored) = 2

\* C5: every completed lookup stores its outcome, not-found included: no
\* call sends a request for a (platform, title) whose lookup has completed.
C5_EveryOutcomeCached ==
    lookup.pc = "requesting" => LookupPair \notin completed

---------------------------------------------------------------------------
(* Claims about fetch_ratings_batch *)

\* C10: the problems are looked up one at a time in list order, and the
\* delay is slept only between consecutive lookups that perform a network
\* call: a sleep after lookup k means that lookup k sent a request, and so
\* did lookup k + 1 once it is done.
C10_DelayOnlyBetweenNetworkCalls ==
    \A k \in 1..Len(batch.steps) :
        /\ batch.steps[k].problem_id = problems[k].problem_id
        /\ batch.steps[k].delay # None =>
              /\ batch.steps[k].requests > 0
              /\ k < Len(batch.steps) => batch.steps[k + 1].requests > 0

---------------------------------------------------------------------------
(* Claims about sort_problems *)

IsSet(p) == p.clist_rating # None

\* rating ascending with unset last, then platform priority ascending
InSortedOrder(ps) ==
    \A k \in 1..(Len(ps) - 1) :
        LET p == ps[k]
            q == ps[k + 1]
        IN  /\ \/ IsSet(p) /\ ~IsSet(q)
               \/ IsSet(p) /\ IsSet(q) /\ p.clist_rating[1] <= q.clist_rating[1]
               \/ ~IsSet(p) /\ ~IsSet(q)
            /\ p.clist_rating = q.clist_rating =>
                  PriorityOf(PLATFORM_PRIORITY, p.platform)
                      <= PriorityOf(PLATFORM_PRIORITY, q.platform)

\* C7: the output of sort_problems is in sorted order: adjacent problems are
\* rating ascending with an unset rating after every numeric rating, and
\* equal ratings are in platform priority order.
C7_SortedUnsetLast ==
    sorted_problems # None => InSortedOrder(sorted_problems[1])

---------------------------------------------------------------------------
(* Claims about the pipeline *)

FirstCrawled(id) ==
    all_problems[CHOOSE k \in 1..Len(all_problems) :
                    /\ all_problems[k].problem_id = id
                    /\ \A j \in 1..(k - 1) : all_problems[j].problem_id # id]

\* C6: when the crawlers return several problems with one problemId, the
\* list that is enriched and exported holds exactly one entry with that
\* problemId, with the title and url of the first one crawled.
C6_DeduplicatedKeepingFirst ==
    main_pc \in {"fetch_ratings", "export"} =>
        \A id \in Ids(all_problems) :
            /\ Cardinality({k \in 1..Len(problems) : problems[k].problem_id = id}) = 1
            /\ \A k \in 1..Len(problems) :
                  problems[k].problem_id = id =>
                      /\ problems[k].title = FirstCrawled(id).title
                      /\ problems[k].url = FirstCrawled(id).url

\* C8: every list an export format writes is in sorted order: rating
\* ascending with unset last, then platform priority.
C8_ExportsSorted ==
    \A f \in {"json", "csv", "markdown"} :
        files[f] # None => InSortedOrder(files[f][1])

---------------------------------------------------------------------------
(* Claims about the problem identity *)

\* the judge problem a Problem was made from: the Codeforces contest and
\* index, the AtCoder task id (case-insensitive), the LeetCode question slug
JudgeProblem(p) ==
    CASE p.platform = "codeforces" -> <<"codeforces", p.contest_id, p.problem_index>>
      [] p.platform = "atcoder" -> <<"atcoder", Lower(p.problem_index)>>
      [] p.platform = "leetcode" ->
            <<"leetcode", IF p.problem_index # "" THEN p.problem_index ELSE p.contest_id>>

\* C9: two problems a crawler creates with equal problemId are made from the
\* same judge problem.
C9_ProblemIdUnique ==
    \A i, j \in 1..Len(returned.problems) :
        returned.problems[i].problem_id = returned.problems[j].problem_id =>
            JudgeProblem(returned.problems[i]) = JudgeProblem(returned.problems[j])

---------------------------------------------------------------------------
(* Claims about crawl_all_problems *)

OfPlatform(ps, platform) == SelectSeq(ps, LAMBDA p : p.platform = platform)

CrawlReturned ==
    main_pc \notin {"not_started", "crawl_codeforces", "crawl_atcoder", "crawl_leetcode"}

CFConfigured == config.codeforces.enabled /\ Strip(config.codeforces.handle) # ""
ATConfigured == config.atcoder.enabled /\ Strip(config.atcoder.handle) # ""
LCConfigured == config.leetcode.enabled /\ config.leetcode.cookies

CFUnsolvedSet ==
    CFGetUnsolvedProblems(CFFetchSubmissions(cf_api).value, config.codeforces.include_gym)
ATUnsolvedSet ==
    ATGetUnsolvedProblems(ATFetchSubmissions(at_api).value, ATFetchProblemsMap(at_api),
                          config.atcoder.contest_only)
LCUnsolvedSet == LCGetUnsolvedProblems(LCFetchSubmissions(lc_api).value)

\* C11: when crawl_all_problems has returned, a platform that is disabled,
\* has no handle or whose crawl raised has no problem in the returned list,
\* and every other configured platform whose crawl did not raise has all the
\* problems of its crawl in the list, in order.
C11_CrawlFailureIsolated ==
    CrawlReturned =>
        /\ (~CFConfigured \/ CFCrawl.raised) => OfPlatform(all_problems, "codeforces") = <<>>
        /\ (~ATConfigured \/ ATCrawl.raised) => OfPlatform(all_problems, "atcoder") = <<>>
        /\ (~LCConfigured \/ LCCrawl.raised) => OfPlatform(all_problems, "leetcode") = <<>>
        /\ (CFConfigured /\ ~CFCrawl.raised) =>
              OfPlatform(all_problems, "codeforces") = CFUnsolvedSet
        /\ (ATConfigured /\ ~ATCrawl.raised) =>
              OfPlatform(all_problems, "atcoder") = ATUnsolvedSet

\* Codeforces has no handle, LeetCode's crawl raised, AtCoder's problems are
\* in the list
C11_Witness ==
    /\ CrawlReturned
    /\ config.codeforces.enabled /\ Strip(config.codeforces.handle) = ""
    /\ CFFetchSubmissions(cf_api).value # <<>>
    /\ LCConfigured /\ LCCrawl.raised
    /\ ATConfigured /\ ~ATCrawl.raised
    /\ all_problems = ATUnsolvedSet
    /\ all_problems # <<>>

---------------------------------------------------------------------------
(* Claims about the isolation of failures in fetch_ratings_batch *)

FailedOutcomes == {"rate_limited", "failed", "raised"}

\* C12: when the lookup of problem k fails (429 with the retries used up,
\* transport failure, HTTP error status, malformed response), its rating
\* stays unset and the batch goes on: it is not ended before the last problem.
C12_LookupFailureIsolated ==
    \A k \in 1..Len(batch.steps) :
        batch.steps[k].outcome \in FailedOutcomes =>
            /\ problems[k].clist_rating = None
            /\ k < Len(problems) => batch.pc \in {"loop", "fetch_rating", "done"}

---------------------------------------------------------------------------
(* Claims about the termination of search_problem *)

FailedResponse(r) == r.kind \in {"network", "status"}

\* C13: a call of search_problem sends at most max_retries requests and has
\* returned once it sent that many, sleeps at most max_retries - 1 times and
\* never after its last request, and returns no result when every attempt
\* failed; 429 answers and transport failures count in the same attempts.
C13_BoundedRetries ==
    lookup.pc \in {"requesting", "returned"} =>
        /\ Len(lookup.responses) <= lookup.max_retries
        /\ Len(lookup.responses) = lookup.max_retries => lookup.pc = "returned"
        /\ Len(lookup.sleeps) <= lookup.max_retries - 1
        /\ lookup.pc = "returned" => Len(lookup.sleeps) < Len(lookup.responses)
                                        \/ lookup.responses = <<>>
        /\ (/\ lookup.pc = "returned"
            /\ lookup.responses # <<>>
            /\ \A k \in 1..Len(lookup.responses) : FailedResponse(lookup.responses[k]))
              => lookup.result = None

\* a 429, a transport failure and a 404 use up the three attempts of one call
C13_Witness ==
    /\ lookup.pc = "returned"
    /\ lookup.max_retries = 3
    /\ lookup.responses = <<RespStatus(429), NetFail, RespStatus(404)>>
    /\ lookup.sleeps = <<15, 10>>
    /\ lookup.result = None

---------------------------------------------------------------------------
(* Claims about the completion of main *)

Unrated(p) == [p EXCEPT !.clist_rating = None]

Count(ps, p) == Cardinality({k \in 1..Len(ps) : Unrated(ps[k]) = Unrated(p)})

SameProblems(ps, qs) ==
    /\ Len(ps) = Len(qs)
    /\ \A k \in 1..Len(qs) : Count(ps, qs[k]) = Count(qs, qs[k])

ExportedAll ==
    \A f \in config.formats : files[f] # None /\ SameProblems(files[f][1], all_problems)

\* C14: when at least one problem was crawled, main reaches its end, and at
\* its end every configured export format was written with every crawled
\* problem, whatever the rating lookups did.
C14_MainExportsEveryCrawled ==
    /\ []((main_pc = "done" /\ all_problems # <<>>) => ExportedAll)
    /\ (main_pc = "crawled" /\ all_problems # <<>>) ~> (main_pc = "done")

\* the batch raised on its first problem and the export still wrote both
C14_Witness ==
    /\ main_pc = "done"
    /\ batch.pc = "raised"
    /\ Len(batch.steps) = 1
    /\ Len(all_problems) >= 2
    /\ ExportedAll

---------------------------------------------------------------------------
(* Claims about the merged sequence *)

\* C15: for every enabled platform that is configured and whose submission
\* history was fetched, every problem of the crawler's unsolved set is in
\* the sequence crawl_all_problems returns.
C15_UnsolvedSetsMerged ==
    CrawlReturned =>
        /\ (CFConfigured /\ ~CFFetchSubmissions(cf_api).raised) =>
              Range(CFUnsolvedSet) \subseteq Range(all_problems)
        /\ (ATConfigured /\ ~ATFetchSubmissions(at_api).raised) =>
              Range(ATUnsolvedSet) \subseteq Range(all_problems)
        /\ (LCConfigured /\ ~LCFetchSubmissions(lc_api).raised) =>
              Range(LCUnsolvedSet) \subseteq Range(all_problems)

---------------------------------------------------------------------------
(* Claims about fetch_rating *)

\* C16: when the answer to a lookup has at least one match and the first
\* match carries a numeric rating, fetch_rating returns that rating and the
\* problem's rating is set to it.
C16_FirstMatchRatingSet ==
    \A k \in 1..Len(batch.steps) :
        LET st == batch.steps[k]
        IN  (st.outcome = "found" /\ st.info[1].rating # None) =>
                problems[k].clist_rating = st.info[1].rating

---------------------------------------------------------------------------
(* Claims about the platform mapping *)

KnownPlatforms == {"codeforces", "atcoder", "leetcode"}

\* C17: a call of search_problem with a platform outside codeforces,
\* atcoder, leetcode returns no result at once: no request is sent, the
\* cache is not looked up and the cache is not written.
C17_UnknownPlatformNoCall ==
    [][(lookup'.pc # "idle" /\ lookup'.platform \notin KnownPlatforms) =>
          /\ lookup'.pc = "returned"
          /\ lookup'.result = None
          /\ lookup'.responses = <<>>
          /\ ~lookup'.cache_checked
          /\ PROBLEM_CACHE' = PROBLEM_CACHE]_vars

\* a call for an unknown platform returned while the cache holds entries
C17_Witness ==
    /\ lookup.platform = "luogu"
    /\ lookup.pc = "returned"
    /\ lookup.outcome = "unknown_platform"
    /\ PROBLEM_CACHE # EmptyCache

---------------------------------------------------------------------------
(* Claims about the submissions whose contest cannot be classified *)

InProblemsMap(pid) ==
    \E i \in 1..Len(ATFetchProblemsMap(at_api)) : ATFetchProblemsMap(at_api)[i].id = pid

\* C18: with the exclusion switched on, get_unsolved_problems produces no
\* Problem from a submission whose contest cannot be classified: none from a
\* Codeforces submission without contestId, none from an AtCoder submission
\* whose problem is absent from the problems map.
C18_UnclassifiedExcluded ==
    UnsolvedReturned =>
        \A i \in 1..Len(returned.problems) :
            LET p == returned.problems[i]
            IN  /\ (crawler = "codeforces" /\ ~include_gym) => p.contest_id # PyStr(JNull)
                /\ (crawler = "atcoder" /\ contest_only) => InProblemsMap(p.problem_index)

---------------------------------------------------------------------------
(* Claims about get_contest_unattempted_problems *)

UnattemptedCalled == call = "get_contest_unattempted_problems"

\* every request of the call was answered
AllFetched ==
    CASE crawler = "codeforces" ->
            cf_api.ok /\ cf_contests.rating_ok /\ cf_contests.fail = {}
      [] crawler = "atcoder" -> at_api.ok /\ at_api.map_ok
      [] crawler = "leetcode" ->
            /\ ~LCFetchSubmissions(lc_api).raised
            /\ lc_contests.ok
            /\ \A pass \in 1..2 : lc_contests.fail[pass] = {}

\* the problems of the judge, as (contest, problem) pairs
JudgeContestProblems ==
    CASE crawler = "codeforces" ->
            UNION {{<<IntToStr(c), cf_contests.problems[c][j].index>> :
                        j \in 1..Len(cf_contests.problems[c])} :
                   c \in DOMAIN cf_contests.problems}
      [] crawler = "atcoder" ->
            {<<at_api.problems[i].contest_id, at_api.problems[i].id>> :
                i \in 1..Len(at_api.problems)}
      [] crawler = "leetcode" ->
            UNION {{<<lc_contests.contests[k].titleSlug,
                      lc_contests.questions[lc_contests.contests[k].titleSlug][j].titleSlug>> :
                        j \in 1..Len(lc_contests.questions[lc_contests.contests[k].titleSlug])} :
                   k \in 1..Len(lc_contests.contests)}

\* the problems the user has a submission for, by the problem part of the pair
SubmittedTo(cp) ==
    CASE crawler = "codeforces" ->
            \E i \in 1..Len(cf_api.result) :
                /\ cf_api.result[i].contestId.t = "int"
                /\ IntToStr(cf_api.result[i].contestId.v) = cp[1]
                /\ cf_api.result[i].index = cp[2]
      [] crawler = "atcoder" ->
            \E i \in 1..Len(at_api.submissions) : at_api.submissions[i].problem_id = cp[2]
      [] crawler = "leetcode" ->
            \E i \in 1..Len(LCFetchSubmissions(lc_api).value) :
                LCFetchSubmissions(lc_api).value[i].titleSlug = cp[2]

PracticeContest(c) ==
    CASE crawler = "codeforces" -> ~include_gym /\ c = "100001"
      [] crawler = "atcoder" -> c \in {"practice", "Practice", "practice2"}
      [] crawler = "leetcode" -> FALSE

\* the user has at least one submission in contest c
UserContest(c) == \E cp \in JudgeContestProblems : cp[1] = c /\ SubmittedTo(cp)

ExpectedUnattempted ==
    {cp \in JudgeContestProblems :
        UserContest(cp[1]) /\ ~PracticeContest(cp[1]) /\ ~SubmittedTo(cp)}

\* a LeetCode question is one problem whatever contests list it
ProblemPart(cps) ==
    IF crawler = "leetcode" THEN {<<"", cp[2]>> : cp \in cps} ELSE cps

ReturnedUnattempted ==
    {<<returned.problems[i].contest_id, returned.problems[i].problem_index>> :
        i \in 1..Len(returned.problems)}

\* C19: when every request was answered, get_contest_unattempted_problems
\* returns exactly the problems of the non-practice contests in which the
\* user has a submission, for which the user has no submission.
C19_ContestUnattemptedExact ==
    (UnattemptedCalled /\ AllFetched) =>
        /\ ~returned.raised
        /\ ProblemPart(ReturnedUnattempted) = ProblemPart(ExpectedUnattempted)

\* the contests whose problem list was asked for and not received
FailedContests ==
    CASE crawler = "codeforces" -> {IntToStr(c) : c \in cf_contests.fail}
      [] crawler = "leetcode" -> lc_contests.fail[1] \cup lc_contests.fail[2]
      [] OTHER -> {}

\* the contests the detection goes through
DetectedContests ==
    CASE crawler = "codeforces" ->
            {IntToStr(cf_contests.rating[k].contestId) : k \in 1..Len(cf_contests.rating)}
                \ {c \in {"100001"} : ~include_gym}
      [] crawler = "leetcode" ->
            {c \in {lc_contests.contests[k].titleSlug : k \in 1..Len(lc_contests.contests)} :
                lc_contests.ok /\ UserContest(c)}
      [] OTHER -> {}

\* C20: when the problem list of one contest cannot be fetched, only that
\* contest is skipped: the call does not raise, returns no problem under the
\* failed contest, and returns the unattempted problems of every other
\* contest it goes through.
C20_ContestFetchFailureSkipped ==
    (/\ UnattemptedCalled
     /\ crawler \in {"codeforces", "leetcode"}
     /\ crawler = "codeforces" => cf_api.ok /\ cf_contests.rating_ok
     /\ crawler = "leetcode" => ~LCFetchSubmissions(lc_api).raised) =>
        /\ ~returned.raised
        /\ \A cp \in ReturnedUnattempted : cp[1] \notin FailedContests
        /\ \A cp \in JudgeContestProblems :
              (cp[1] \in DetectedContests \ FailedContests /\ ~SubmittedTo(cp)) =>
                  \E rp \in ReturnedUnattempted : ProblemPart({rp}) = ProblemPart({cp})

\* the standings of contest 1 failed, the problems of the other contest are
\* returned
C20_Witness ==
    /\ UnattemptedCalled
    /\ crawler = "codeforces"
    /\ cf_contests.fail = {1}
    /\ Len(cf_contests.rating) = 2
    /\ ~returned.raised
    /\ ReturnedUnattempted = {<<"100001", "A">>, <<"100001", "B">>}

---------------------------------------------------------------------------
(* Claims about the order of ties *)

Tied(p, q) ==
    /\ p.clist_rating = q.clist_rating
    /\ PriorityOf(PLATFORM_PRIORITY, p.platform) = PriorityOf(PLATFORM_PRIORITY, q.platform)

CrawledBefore(p, q) ==
    \E a, b \in 1..Len(all_problems) :
        a < b /\ all_problems[a] = Unrated(p) /\ all_problems[b] = Unrated(q)

\* C21: two problems with equal rating (or both unset) and equal platform
\* priority are in the sorted output in the order in which they were
\* crawled.
C21_TiesInCrawlOrder ==
    files.markdown # None =>
        LET out == files.markdown[1]
        IN  \A i, j \in 1..Len(out) :
                (i < j /\ Tied(out[i], out[j]) /\ Unrated(out[i]) # Unrated(out[j])) =>
                    CrawledBefore(out[i], out[j])

---------------------------------------------------------------------------
(* Claims about the determinism of problem_id *)

SameTriple(p, q) ==
    /\ p.platform = q.platform
    /\ p.contest_id = q.contest_id
    /\ p.problem_index = q.problem_index

\* C22: two Problem instances built from equal (platform, contest_id,
\* problem_index) have equal problem_id, whatever their title, url and rating.
C22_ProblemIdDeterministic ==
    \A i, j \in 1..Len(problems) :
        SameTriple(problems[i], problems[j]) =>
            problems[i].problem_id = problems[j].problem_id

\* two instances of one triple that differ in title, url and rating
C22_Witness ==
    \E i, j \in 1..Len(problems) :
        /\ SameTriple(problems[i], problems[j])
        /\ problems[i].title # problems[j].title
        /\ problems[i].url # problems[j].url
        /\ problems[i].clist_rating # problems[j].clist_rating
        /\ problems[i].problem_id = problems[j].problem_id

---------------------------------------------------------------------------
(* Claims about the backoff waits *)

IsRateLimit(r) == r.kind # "network" /\ r.code = 429

IsFailure(r) == ~IsRateLimit(r) /\ FailedResponse(r)

CountBefore(resps, k, Test(_)) == Cardinality({j \in 1..(k - 1) : Test(resps[j])})

\* C23: within one call, the wait after a 429 is 15 seconds doubled once for
\* every earlier 429 of the call, and the wait after the n-th failed request
\* is 5 x n seconds, whatever the mix of 429 answers and failures.
C23_BackoffPerKind ==
    \A k \in 1..Len(lookup.sleeps) :
        LET r == lookup.responses[k]
        IN  /\ IsRateLimit(r) =>
                  lookup.sleeps[k] = 15 * Pow2(CountBefore(lookup.responses, k, IsRateLimit))
            /\ IsFailure(r) =>
                  lookup.sleeps[k] = 5 * (CountBefore(lookup.responses, k, IsFailure) + 1)

---------------------------------------------------------------------------
(* Claims about what fetch_ratings_batch changes *)

\* C24: a step of fetch_ratings_batch leaves the list's length and order and
\* every field of every problem but the rating as they are; a rating that is
\* set is not written again, no rating is ever 0, and the problem whose
\* lookup found no rating keeps an unset rating.
C24_OnlyRatingWritten ==
    [][/\ Len(problems') = Len(problems)
       /\ \A k \in 1..Len(problems) :
             /\ Unrated(problems'[k]) = Unrated(problems[k])
             /\ problems[k].clist_rating # None =>
                   problems'[k].clist_rating = problems[k].clist_rating
             /\ problems'[k].clist_rating # Some(0)
       /\ \A k \in 1..Len(batch'.steps) :
             (batch'.steps[k].info = None \/ batch'.steps[k].info[1].rating = None) =>
                 problems'[k].clist_rating = None]_vars

\* a batch of three is through: the first problem got no match, the second
\* is rated, the third got a match without a rating
C24_Witness ==
    /\ batch.pc = "done"
    /\ Len(problems) = 3
    /\ batch.steps[1].info = None
    /\ problems[1].clist_rating = None
    /\ problems[2].clist_rating = Some(1500)
    /\ batch.steps[3].info # None /\ batch.steps[3].info[1].rating = None
    /\ problems[3].clist_rating = None

---------------------------------------------------------------------------
(* Claims about the rating cache *)

\* C25: a step never removes a key of the rating cache nor changes the value
\* stored under it, and a lookup answered from the cache returns the value
\* stored under its (platform, title), whichever problem asks.
C25_CacheAppendOnly ==
    [][/\ \A key \in DOMAIN PROBLEM_CACHE :
             key \in DOMAIN PROBLEM_CACHE' /\ PROBLEM_CACHE'[key] = PROBLEM_CACHE[key]
       /\ lookup'.outcome = "hit" =>
             /\ lookup'.responses = <<>>
             /\ lookup'.result = Some(PROBLEM_CACHE[CacheKey(lookup'.platform, lookup'.title)])
             /\ lookup'.result = Some(stored[<<lookup'.platform, lookup'.title>>])]_vars

\* two problems of different contests with one platform and title: the
\* second is answered from the entry the first stored, and the cache holds
\* a second entry
C25_Witness ==
    /\ Len(batch.steps) = 3
    /\ problems[1].problem_id # problems[3].problem_id
    /\ batch.steps[1].outcome = "found"
    /\ batch.steps[2].outcome = "found"
    /\ batch.steps[3].outcome = "hit"
    /\ batch.steps[3].info = batch.steps[1].info
    /\ Cardinality(DOMAIN PROBLEM_CACHE) = 2

====
